---- MODULE Spec2Model ----
(***************************************************************************)
(* A model of sqlrender (src/sqlrender.go): the dialect-aware argument     *)
(* binder QueryArgs (Bind, Identifier, placeholderFor, quoteIdentifier)    *)
(* and the Renderer that wires a fresh binder into text/template.          *)
(*                                                                         *)
(* Text is a sequence of one-character strings, so that formatting         *)
(* (fmt.Sprintf), joining, splitting and the identifier pattern are        *)
(* computed character by character, as the code computes them.             *)
(***************************************************************************)
EXTENDS Integers, Sequences, FiniteSets, TLC

VARIABLES
    qa,     \* a binder used directly through the QueryArgs API: [args, dialect]
    ret,    \* outcome of the last direct call on qa: [op, kind, text]
    log,    \* direct Bind calls on qa, in call order: [arg, ret, pre]
    pending,\* the value the caller is about to hand to Identifier
    r,      \* the Renderer: [defaultDialect, searchPaths, customFuncs]
    heap,   \* the QueryArgs objects that renders allocated: id -> [args, dialect]
    rn,     \* the calls of FromStringWithDialect, one per caller
    tpl,    \* the template text the callers render, as its nodes
    fs,     \* the file system: path -> the directory mark or a file's content
    calls   \* the calls made so far on qa, or the configuration calls on r

binderVars == <<qa, ret, log, pending>>
renderVars == <<r, heap, rn, tpl, fs>>
vars == <<binderVars, renderVars, calls>>

-----------------------------------------------------------------------------
(* Bounds of the model.                                                    *)

MaxCalls == 3
MaxArgs == 4
MaxSliceLen == 2
MaxIdLen == 3
MaxPos == 12
MaxNodes == 3
MaxConfig == 3
MaxIdentCalls == 2

-----------------------------------------------------------------------------
(* Dialects: the six built-in tags and one tag the library does not know.  *)

DialectPostgres == "postgres"
DialectMySQL == "mysql"
DialectSQLite == "sqlite"
DialectSQLServer == "sqlserver"
DialectSnowflake == "snowflake"
DialectOracle == "oracle"
DialectUnknown == "db2"

BuiltinDialects ==
    {DialectPostgres, DialectMySQL, DialectSQLite, DialectSQLServer,
     DialectSnowflake, DialectOracle}

Dialects == BuiltinDialects \cup {DialectUnknown}

-----------------------------------------------------------------------------
(* Text helpers: fmt.Sprintf("%d"), strings.Join, strings.Split.           *)

DigitChars == <<"0", "1", "2", "3", "4", "5", "6", "7", "8", "9">>

RECURSIVE FormatInt(_)
FormatInt(n) ==
    IF n < 10 THEN <<DigitChars[n + 1]>>
    ELSE FormatInt(n \div 10) \o <<DigitChars[(n % 10) + 1]>>

RECURSIVE Join(_, _)
Join(parts, sep) ==
    IF Len(parts) = 0 THEN <<>>
    ELSE IF Len(parts) = 1 THEN parts[1]
    ELSE parts[1] \o sep \o Join(Tail(parts), sep)

RECURSIVE Split(_, _)
Split(s, c) ==
    IF \E i \in 1..Len(s) : s[i] = c
    THEN LET i == CHOOSE j \in 1..Len(s) :
                      s[j] = c /\ \A k \in 1..(j - 1) : s[k] # c
         IN  <<SubSeq(s, 1, i - 1)>> \o Split(SubSeq(s, i + 1, Len(s)), c)
    ELSE <<s>>

-----------------------------------------------------------------------------
(* Go values handed to Bind and Identifier, by their reflect.Kind.         *)

Nil == [kind |-> "nil", n |-> 0, elems |-> <<>>, s |-> <<>>]
IntV(i) == [kind |-> "int", n |-> i, elems |-> <<>>, s |-> <<>>]
BoolV(b) == [kind |-> "bool", n |-> b, elems |-> <<>>, s |-> <<>>]
StrV(t) == [kind |-> "string", n |-> 0, elems |-> <<>>, s |-> t]
SliceV(es) == [kind |-> "slice", n |-> 0, elems |-> es, s |-> <<>>]
ArrayV(es) == [kind |-> "array", n |-> 0, elems |-> es, s |-> <<>>]

IsCollection(v) == v.kind \in {"slice", "array"}

-----------------------------------------------------------------------------
(* QueryArgs (src/sqlrender.go).                                           *)

NewQueryArgs(dialect) == [args |-> <<>>, dialect |-> dialect]

\* A binder that numbers positions from zero.
placeholderForZeroBased(q, n) ==
    CASE q.dialect = DialectPostgres -> <<"$">> \o FormatInt(n - 1)
      [] q.dialect = DialectSQLServer -> <<"@", "p">> \o FormatInt(n - 1)
      [] q.dialect = DialectOracle -> <<":">> \o FormatInt(n - 1)
      [] OTHER -> <<"?">>

\* A binder that numbers Snowflake placeholders as it numbers Postgres ones.
placeholderForSnowflakeDollar(q, n) ==
    CASE q.dialect \in {DialectPostgres, DialectSnowflake} -> <<"$">> \o FormatInt(n)
      [] q.dialect = DialectSQLServer -> <<"@", "p">> \o FormatInt(n)
      [] q.dialect = DialectOracle -> <<":">> \o FormatInt(n)
      [] OTHER -> <<"?">>

placeholderFor(q, n) ==
    CASE q.dialect = DialectPostgres -> <<"$">> \o FormatInt(n)
      [] q.dialect = DialectSQLServer -> <<"@", "p">> \o FormatInt(n)
      [] q.dialect = DialectOracle -> <<":">> \o FormatInt(n)
      [] OTHER -> <<"?">>

\* A loop that numbers every element of the collection by the length the
\* argument list had when the loop began.
RECURSIVE BindLoopStale(_, _, _, _)
BindLoopStale(q, elems, i, placeholders) ==
    IF i > Len(elems) THEN [qa |-> q, placeholders |-> placeholders]
    ELSE BindLoopStale([q EXCEPT !.args = Append(q.args, elems[i])], elems, i + 1,
                       Append(placeholders,
                              placeholderFor(q, Len(q.args) - (i - 1) + 1)))

\* The loop of Bind over a slice or array: element i is appended, then its
\* placeholder is computed from the new length.
RECURSIVE BindLoop(_, _, _, _)
BindLoop(q, elems, i, placeholders) ==
    IF i > Len(elems) THEN [qa |-> q, placeholders |-> placeholders]
    ELSE LET q1 == [q EXCEPT !.args = Append(q.args, elems[i])]
         IN  BindLoop(q1, elems, i + 1,
                      Append(placeholders, placeholderFor(q1, Len(q1.args))))

\* A Bind that reuses the position of a value the binder already holds.
BindDedup(q, arg) ==
    IF IsCollection(arg)
    THEN IF Len(arg.elems) = 0
         THEN [qa |-> q, ret |-> <<"(", "N", "U", "L", "L", ")">>]
         ELSE LET l == BindLoop(q, arg.elems, 1, <<>>)
              IN  [qa |-> l.qa,
                   ret |-> <<"(">> \o Join(l.placeholders, <<",", " ">>) \o <<")">>]
    ELSE LET v == IF arg.kind = "nil" THEN Nil ELSE arg
         IN  IF \E i \in 1..Len(q.args) : q.args[i] = v
             THEN [qa |-> q,
                   ret |-> placeholderFor(q, CHOOSE i \in 1..Len(q.args) : q.args[i] = v)]
             ELSE LET q1 == [q EXCEPT !.args = Append(q.args, v)]
                  IN  [qa |-> q1, ret |-> placeholderFor(q1, Len(q1.args))]

\* A Bind that binds one NULL argument for an empty collection.
BindEmptyAsNull(q, arg) ==
    IF IsCollection(arg) /\ Len(arg.elems) > 0
    THEN LET l == BindLoop(q, arg.elems, 1, <<>>)
         IN  [qa |-> l.qa,
              ret |-> <<"(">> \o Join(l.placeholders, <<",", " ">>) \o <<")">>]
    ELSE LET q1 == [q EXCEPT !.args = Append(q.args, IF IsCollection(arg) THEN Nil ELSE arg)]
         IN  [qa |-> q1,
              ret |-> IF IsCollection(arg) THEN <<"(", "N", "U", "L", "L", ")">>
                      ELSE placeholderFor(q1, Len(q1.args))]

Bind(q, arg) ==
    IF arg.kind = "nil"
    THEN LET q1 == [q EXCEPT !.args = Append(q.args, Nil)]
         IN  [qa |-> q1, ret |-> placeholderFor(q1, Len(q1.args))]
    ELSE IF IsCollection(arg)
    THEN IF Len(arg.elems) = 0
         THEN [qa |-> q, ret |-> <<"(", "N", "U", "L", "L", ")">>]
         ELSE LET l == BindLoop(q, arg.elems, 1, <<>>)
              IN  [qa |-> l.qa,
                   ret |-> <<"(">> \o Join(l.placeholders, <<",", " ">>) \o <<")">>]
    ELSE LET q1 == [q EXCEPT !.args = Append(q.args, arg)]
         IN  [qa |-> q1, ret |-> placeholderFor(q1, Len(q1.args))]

\* identifierPattern, ^[A-Za-z0-9._]+$ : one or more characters, all of the class.
IdentChars ==
    {"A", "B", "C", "D", "E", "F", "G", "H", "I", "J", "K", "L", "M",
     "N", "O", "P", "Q", "R", "S", "T", "U", "V", "W", "X", "Y", "Z",
     "a", "b", "c", "d", "e", "f", "g", "h", "i", "j", "k", "l", "m",
     "n", "o", "p", "q", "r", "s", "t", "u", "v", "w", "x", "y", "z",
     "0", "1", "2", "3", "4", "5", "6", "7", "8", "9", ".", "_"}

\* The pattern without its anchors: some run of class characters occurs.
identifierPatternUnanchored(s) == \E i \in 1..Len(s) : s[i] \in IdentChars

identifierPattern(s) == Len(s) >= 1 /\ \A i \in 1..Len(s) : s[i] \in IdentChars

\* fmt's %q verb: the text in double quotes, with " and \ escaped.
RECURSIVE QuoteBody(_)
QuoteBody(s) ==
    IF Len(s) = 0 THEN <<>>
    ELSE (IF Head(s) \in {"\"", "\\"} THEN <<"\\", Head(s)>> ELSE <<Head(s)>>)
         \o QuoteBody(Tail(s))

Quote(s) == <<"\"">> \o QuoteBody(s) \o <<"\"">>

PanicPrefix ==
    <<"s", "q", "l", "r", "e", "n", "d", "e", "r", ":", " ", "i", "n", "v", "a", "l", "i", "d", " ", "i", "d", "e", "n", "t", "i", "f", "i", "e", "r", " ">>

\* The grave accent U+0060, which a TLA+ string cannot hold, as one character.
Backtick == "<U+0060>"

quoteIdentifier(q, id) ==
    CASE q.dialect \in {DialectPostgres, DialectOracle} -> <<"\"">> \o id \o <<"\"">>
      [] q.dialect = DialectSQLServer -> <<"[">> \o id \o <<"]">>
      [] OTHER -> <<Backtick>> \o id \o <<Backtick>>

\* An Identifier that quotes the whole name as one segment.
IdentifierNoSplit(q, name) ==
    IF name.kind # "string" \/ name.s = <<>>
    THEN [qa |-> q, kind |-> "value", text |-> <<>>]
    ELSE IF ~identifierPattern(name.s)
    THEN [qa |-> q, kind |-> "panic", text |-> PanicPrefix \o Quote(name.s)]
    ELSE [qa |-> q, kind |-> "value", text |-> quoteIdentifier(q, name.s)]

\* An Identifier that binds the name it quotes.
IdentifierBinding(q, name) ==
    IF name.kind # "string" \/ name.s = <<>>
    THEN [qa |-> q, kind |-> "value", text |-> <<>>]
    ELSE IF ~identifierPattern(name.s)
    THEN [qa |-> q, kind |-> "panic", text |-> PanicPrefix \o Quote(name.s)]
    ELSE LET parts == Split(name.s, ".")
             quoted == [i \in 1..Len(parts) |-> quoteIdentifier(q, parts[i])]
         IN  [qa |-> [q EXCEPT !.args = Append(@, name)], kind |-> "value",
              text |-> Join(quoted, <<".">>)]

\* Identifier returns a text or panics; it never assigns to the binder.
Identifier(q, name) ==
    IF name.kind # "string" \/ name.s = <<>>
    THEN [qa |-> q, kind |-> "value", text |-> <<>>]
    ELSE IF ~identifierPattern(name.s)
    THEN [qa |-> q, kind |-> "panic", text |-> PanicPrefix \o Quote(name.s)]
    ELSE LET parts == Split(name.s, ".")
             quoted == [i \in 1..Len(parts) |-> quoteIdentifier(q, parts[i])]
         IN  [qa |-> q, kind |-> "value", text |-> Join(quoted, <<".">>)]

-----------------------------------------------------------------------------
(* Renderer (src/sqlrender.go) and the part of text/template it drives.    *)

\* A map without entries (make(template.FuncMap), or the nil map).
EmptyMap == [x \in {} |-> "const"]

NewRenderer(defaultDialect) ==
    [defaultDialect |-> defaultDialect, searchPaths |-> <<>>, customFuncs |-> EmptyMap]

\* r.customFuncs[name] = fn
AddFunc(rr, name, fn) == [rr EXCEPT !.customFuncs = (name :> fn) @@ @]

\* for name, fn := range funcs { r.customFuncs[name] = fn }
AddFuncs(rr, funcs) == [rr EXCEPT !.customFuncs = funcs @@ @]

\* The function table of one render: the two methods of its binder first, then
\* every custom function assigned over them.
BuildFuncMap(rr) ==
    rr.customFuncs @@ ("bind" :> "Bind") @@ ("identifier" :> "Identifier")

\* A template as its nodes: literal text, or an action {{ fn .arg }}.
TextNode == [kind |-> "text", fn |-> "", arg |-> ""]
CallNode(fn, key) == [kind |-> "call", fn |-> fn, arg |-> key]

TextOf(node) == <<" ">>

\* template.New("sql").Funcs(funcMap).Parse(s): TRUE when it returns an error,
\* as it does for an action that names a function the table does not define.
ParseFails(s, funcMap) ==
    \E i \in 1..Len(s) : s[i].kind = "call" /\ s[i].fn \notin DOMAIN funcMap

\* An error return that hands back what was rendered and bound so far.
ErrorResultPartial(buf, q, err) == [text |-> buf, args |-> q.args, err |-> err]

\* The results FromStringWithDialect returns.
ErrorResult(buf, q, err) == [text |-> <<>>, args |-> <<>>, err |-> err]
OkResult(buf, q) == [text |-> buf, args |-> q.args, err |-> "nil"]
NoResult == [text |-> <<>>, args |-> <<>>, err |-> "none"]

\* qa := NewQueryArgs(dialect): a new object; the objects no running render
\* refers to are garbage.
SmallestFree(ids) == CHOOSE i \in 1..(Cardinality(ids) + 1) :
                        i \notin ids /\ \A j \in 1..(i - 1) : j \in ids

\* A binder kept from one render to the next.
AcquireShared(hp, live, dialect) ==
    IF DOMAIN hp = {}
    THEN [heap |-> (1 :> NewQueryArgs(dialect)), id |-> 1]
    ELSE LET id == CHOOSE i \in DOMAIN hp : \A j \in DOMAIN hp : i <= j
         IN  [heap |-> [hp EXCEPT ![id].dialect = dialect], id |-> id]

AcquireBinder(hp, live, dialect) ==
    LET kept == [i \in (DOMAIN hp \cap live) |-> hp[i]]
        id == SmallestFree(DOMAIN kept)
    IN  [heap |-> (id :> NewQueryArgs(dialect)) @@ kept, id |-> id]

IdleRender ==
    [status |-> "idle", data |-> "", dialect |-> "", qa |-> 0, funcMap |-> EmptyMap,
     pc |-> 0, buf |-> <<>>, result |-> NoResult]

\* FromStringWithDialect up to the end of Parse.
StartOf(rr, hp, live, s, data, dialect) ==
    LET a == AcquireBinder(hp, live, dialect)
        funcMap == BuildFuncMap(rr)
        run == [status |-> "running", data |-> data, dialect |-> dialect, qa |-> a.id,
                funcMap |-> funcMap, pc |-> 1, buf |-> <<>>, result |-> NoResult]
    IN  [heap |-> a.heap,
         run |-> IF ParseFails(s, funcMap)
                 THEN [run EXCEPT !.status = "done",
                                  !.result = ErrorResult(<<>>, a.heap[a.id], "parse")]
                 ELSE run]

\* The call of one action of the template: the function the table holds under
\* the name, applied to the field of the data. A panic of the function comes
\* back from the template engine as an execution error.
CallOf(impl, q, arg) ==
    CASE impl = "Bind" ->
            LET b == Bind(q, arg) IN [qa |-> b.qa, out |-> b.ret, err |-> "nil"]
      [] impl = "Identifier" ->
            LET v == Identifier(q, arg)
            IN  [qa |-> v.qa, out |-> v.text,
                 err |-> IF v.kind = "panic" THEN "exec" ELSE "nil"]
      [] impl = "fail" -> [qa |-> q, out |-> <<>>, err |-> "exec"]
      [] OTHER -> [qa |-> q, out |-> <<"X">>, err |-> "nil"]

\* What Execute does with the outcome c of the call of one action: it writes
\* the text, or stops at the error.
AfterCall(run, hp, c) ==
    IF c.err # "nil"
    THEN [heap |-> [hp EXCEPT ![run.qa] = c.qa],
          run |-> [run EXCEPT !.status = "done",
                              !.result = ErrorResult(run.buf, c.qa, c.err)]]
    ELSE [heap |-> [hp EXCEPT ![run.qa] = c.qa],
          run |-> [run EXCEPT !.pc = @ + 1, !.buf = @ \o c.out]]

\* One step of tmpl.Execute, and the return that follows the last.
StepOf(st, s, dataOf) ==
    IF st.run.pc > Len(s)
    THEN [st EXCEPT !.run.status = "done",
                    !.run.result = OkResult(st.run.buf, st.heap[st.run.qa])]
    ELSE IF s[st.run.pc].kind = "text"
    THEN [st EXCEPT !.run.pc = @ + 1, !.run.buf = @ \o TextOf(s[st.run.pc])]
    ELSE AfterCall(st.run, st.heap,
                   CallOf(st.run.funcMap[s[st.run.pc].fn], st.heap[st.run.qa],
                          dataOf[s[st.run.pc].arg]))

RECURSIVE RunOf(_, _, _)
RunOf(st, s, dataOf) ==
    IF st.run.status = "done" THEN st ELSE RunOf(StepOf(st, s, dataOf), s, dataOf)

\* SetDefaultDialect, AddSearchPath, SetSearchPaths: one field assigned each.
\* A setter that leaves the default as it was constructed.
SetDefaultDialectIgnored(rr, d) == rr

SetDefaultDialect(rr, d) == [rr EXCEPT !.defaultDialect = d]

AddSearchPath(rr, path) == [rr EXCEPT !.searchPaths = Append(@, path)]

SetSearchPaths(rr, paths) == [rr EXCEPT !.searchPaths = paths]

\* filepath.Clean, for paths without "." and ".." elements: doubled separators
\* collapse and a trailing separator is dropped.
RECURSIVE Clean(_)
Clean(p) ==
    IF Len(p) = 0 THEN <<>>
    ELSE IF Head(p) = "/" /\ (Len(p) = 1 \/ p[2] = "/") THEN Clean(Tail(p))
    ELSE <<Head(p)>> \o Clean(Tail(p))

\* filepath.Join(dir, name): empty elements are ignored, the rest are joined
\* by the separator and the result is cleaned.
filepathJoin(dir, name) ==
    Clean(Join(SelectSeq(<<dir, name>>, LAMBDA e : e # <<>>), <<"/">>))

\* os.Stat(path) returns no error: the path names a file or a directory.
Stat(files, path) == path \in DOMAIN files

FileEntry(content) == [kind |-> "file", content |-> content]
DirEntry == [kind |-> "dir", content |-> <<>>]

NotFoundPrefix ==
    <<"s", "q", "l", "r", "e", "n", "d", "e", "r", ":", " ", "t", "e", "m", "p", "l", "a", "t", "e", " ">>

NotFoundInfix ==
    <<" ", "n", "o", "t", " ", "f", "o", "u", "n", "d", " ", "i", "n", " ", "s", "e", "a", "r", "c", "h", " ", "p", "a", "t", "h", "s", ":", " ">>

\* fmt's %v verb for a []string: the elements separated by spaces, in brackets.
FormatStrings(ss) == <<"[">> \o Join(ss, <<" ">>) \o <<"]">>

NotFoundError(name, paths) ==
    [err |-> "notfound", path |-> <<>>,
     msg |-> NotFoundPrefix \o Quote(name) \o NotFoundInfix \o FormatStrings(paths)]

\* A lookup that consults the search paths before the name itself.
RECURSIVE findTemplateFileSearchFirst(_, _, _, _)
findTemplateFileSearchFirst(rr, files, name, i) ==
    IF i = 0 THEN findTemplateFileSearchFirst(rr, files, name, 1)
    ELSE IF i > Len(rr.searchPaths)
    THEN IF Stat(files, name)
         THEN [err |-> "nil", path |-> name, msg |-> <<>>]
         ELSE NotFoundError(name, rr.searchPaths)
    ELSE IF Stat(files, filepathJoin(rr.searchPaths[i], name))
    THEN [err |-> "nil", path |-> filepathJoin(rr.searchPaths[i], name), msg |-> <<>>]
    ELSE findTemplateFileSearchFirst(rr, files, name, i + 1)

\* findTemplateFile: i = 0 is the check of the name itself, i >= 1 the pass of
\* the loop over r.searchPaths[i].
RECURSIVE findTemplateFile(_, _, _, _)
findTemplateFile(rr, files, name, i) ==
    IF i = 0
    THEN IF Stat(files, name)
         THEN [err |-> "nil", path |-> name, msg |-> <<>>]
         ELSE findTemplateFile(rr, files, name, 1)
    ELSE IF i > Len(rr.searchPaths)
    THEN NotFoundError(name, rr.searchPaths)
    ELSE IF Stat(files, filepathJoin(rr.searchPaths[i], name))
    THEN [err |-> "nil", path |-> filepathJoin(rr.searchPaths[i], name), msg |-> <<>>]
    ELSE findTemplateFile(rr, files, name, i + 1)

-----------------------------------------------------------------------------
(* The inputs of the direct calls.                                         *)

RECURSIVE SeqsUpTo(_, _)
SeqsUpTo(S, n) ==
    IF n = 0 THEN {<<>>}
    ELSE LET shorter == SeqsUpTo(S, n - 1)
         IN  shorter \cup {Append(t, x) : t \in {u \in shorter : Len(u) = n - 1}, x \in S}

Scalars == {Nil, IntV(1), IntV(2)}
Elems == {IntV(1), IntV(2)}
Slices == {SliceV(es) : es \in SeqsUpTo(Elems, MaxSliceLen)}
Arrays == {ArrayV(es) : es \in SeqsUpTo({IntV(7)}, MaxSliceLen)}
Values == Scalars \cup Slices \cup Arrays

\* Texts handed to Identifier: every text over a small alphabet of class and
\* non-class characters, and values that are not texts.
NameChars == {"a", "Z", "7", "_", ".", ";", "\"", " "}
Names == {StrV(t) : t \in SeqsUpTo(NameChars, MaxIdLen)} \cup {Nil, IntV(1)}

\* The data maps the callers pass, by name; the fields the templates read.
DataOf(name) ==
    IF name = "d1"
    THEN [IDs |-> SliceV(<<IntV(1), IntV(2), IntV(3)>>), Active |-> BoolV(1),
          E |-> SliceV(<<>>), T |-> StrV(<<"a", ".", "b">>)]
    ELSE [IDs |-> ArrayV(<<IntV(4), IntV(5)>>), Active |-> Nil,
          E |-> ArrayV(<<>>), T |-> StrV(<<"a", ";">>)]

DataNames == {"d1", "d2"}

Nodes ==
    {TextNode, CallNode("bind", "IDs"), CallNode("bind", "Active"),
     CallNode("identifier", "T"), CallNode("helper", "Active")}

Templates == SeqsUpTo(Nodes, MaxNodes)

RenderDialects == {DialectPostgres, DialectSQLServer, DialectOracle, DialectMySQL}

\* What callers register: a function that returns a fixed text, under any of
\* the names, and one that returns an error.
Registrations == {<<"bind", "const">>, <<"helper", "fail">>}

FuncMaps == {("helper" :> "const") @@ ("identifier" :> "const")}

ConcurrentDialects == {DialectPostgres, DialectSQLServer}

Slots == {1, 2}

InitRenderer ==
    /\ r = NewRenderer(DialectMySQL)
    /\ heap = EmptyMap
    /\ rn = [s \in Slots |-> IdleRender]
    /\ tpl = <<>>
    /\ fs = EmptyMap
    /\ calls = <<>>

-----------------------------------------------------------------------------
(* Direct use of one binder.                                               *)

NoRet == [op |-> "none", arg |-> Nil, kind |-> "none", text |-> <<>>, pre |-> <<>>]

InitBinder ==
    /\ qa \in {NewQueryArgs(d) : d \in Dialects}
    /\ ret = NoRet
    /\ log = <<>>
    /\ pending = Nil
    /\ InitRenderer

DoBind(arg) ==
    /\ Len(log) < MaxCalls
    /\ Len(qa.args) + Len(arg.elems) <= MaxArgs
    /\ LET b == Bind(qa, arg)
       IN  /\ qa' = b.qa
           /\ ret' = [op |-> "Bind", arg |-> arg, kind |-> "value",
                      text |-> b.ret, pre |-> qa.args]
           /\ log' = Append(log, [arg |-> arg, ret |-> b.ret, pre |-> qa.args])
           /\ calls' = Append(calls, [op |-> "Bind", arg |-> arg])
           /\ UNCHANGED <<pending, renderVars>>

DoIdentifier(name) ==
    LET v == Identifier(qa, name)
    IN  /\ qa' = v.qa
        /\ ret' = [op |-> "Identifier", arg |-> name, kind |-> v.kind,
                   text |-> v.text, pre |-> qa.args]
        /\ calls' = Append(calls, [op |-> "Identifier", arg |-> name])
        /\ UNCHANGED <<log, pending, renderVars>>

\* Bind calls alone, over every value.
NextBinder == \E arg \in Values : DoBind(arg)

SpecBinder == InitBinder /\ [][NextBinder]_vars

\* One Identifier call, on a name drawn from every text up to MaxIdLen, on a
\* binder that is empty or holds one argument.
InitIdent ==
    /\ qa \in {NewQueryArgs(d) : d \in Dialects}
    /\ ret = NoRet
    /\ log = <<>>
    /\ pending \in Names
    /\ InitRenderer

DoFirstBind == log = <<>> /\ DoBind(IntV(1))

DoPendingIdentifier == ret.op # "Identifier" /\ DoIdentifier(pending)

NextIdent == DoFirstBind \/ DoPendingIdentifier

SpecIdent == InitIdent /\ [][NextIdent]_vars

\* Bind and Identifier calls on one binder in any order: a caller that
\* recovers from a panic of Identifier goes on using the binder.
MixedValues == {IntV(1), SliceV(<<IntV(1), IntV(2)>>)}

MixedNames ==
    {Nil, IntV(1), StrV(<<>>), StrV(<<"a", ".", "b">>), StrV(<<"a", ";">>)}

IdentifierCalls == SelectSeq(calls, LAMBDA c : c.op = "Identifier")

NextMixed ==
    \/ \E arg \in MixedValues : DoBind(arg)
    \/ \E name \in MixedNames :
          Len(IdentifierCalls) < MaxIdentCalls /\ DoIdentifier(name)

SpecMixed == InitBinder /\ [][NextMixed]_vars

\* placeholderFor alone: one call with a position drawn from 1..MaxPos, on a
\* binder of every dialect.
InitPlaceholder ==
    /\ qa \in {[args |-> a, dialect |-> d] : a \in {<<>>, <<Nil>>}, d \in Dialects}
    /\ ret = NoRet
    /\ log = <<>>
    /\ pending \in {IntV(n) : n \in 1..MaxPos}
    /\ InitRenderer

DoPlaceholderFor ==
    /\ ret.op = "none"
    /\ ret' = [op |-> "placeholderFor", arg |-> pending, kind |-> "value",
               text |-> placeholderFor(qa, pending.n), pre |-> qa.args]
    /\ UNCHANGED <<qa, log, pending, renderVars, calls>>

NextPlaceholder == DoPlaceholderFor

SpecPlaceholder == InitPlaceholder /\ [][NextPlaceholder]_vars

-----------------------------------------------------------------------------
(* One renderer, configured and used by one caller at a time.              *)

InitBinderIdle ==
    /\ qa = NewQueryArgs(DialectMySQL)
    /\ ret = NoRet
    /\ log = <<>>
    /\ pending = Nil

Init ==
    /\ InitBinderIdle
    /\ r = NewRenderer(DialectMySQL)
    /\ heap = EmptyMap
    /\ rn = [s \in Slots |-> IdleRender]
    /\ tpl \in Templates
    /\ fs = EmptyMap
    /\ calls = <<>>

Running == {s \in Slots : rn[s].status = "running"}

DoAddFunc(name, fn) ==
    /\ Running = {}
    /\ r' = AddFunc(r, name, fn)
    /\ UNCHANGED <<binderVars, heap, rn, tpl, fs, calls>>

DoAddFuncs(funcs) ==
    /\ Running = {}
    /\ r' = AddFuncs(r, funcs)
    /\ UNCHANGED <<binderVars, heap, rn, tpl, fs, calls>>

\* A whole call of FromStringWithDialect(tpl, data, dialect).
FromStringWithDialect(data, dialect) ==
    /\ Running = {}
    /\ \E end \in {RunOf(StartOf(r, heap, {}, tpl, data, dialect), tpl, DataOf(data))} :
          /\ heap' = end.heap
          /\ rn' = [rn EXCEPT ![1] = end.run]
    /\ UNCHANGED <<binderVars, r, tpl, fs, calls>>

Next ==
    \/ \E reg \in Registrations : DoAddFunc(reg[1], reg[2])
    \/ \E funcs \in FuncMaps : DoAddFuncs(funcs)
    \/ \E data \in DataNames, dialect \in RenderDialects :
          FromStringWithDialect(data, dialect)

Spec == Init /\ [][Next]_vars

-----------------------------------------------------------------------------
(* Two callers rendering on one renderer at the same time, the steps of    *)
(* their template executions interleaved.                                  *)

ConcurrentDataOf(s) == IF s = 1 THEN "d1" ELSE "d2"

InitConcurrent ==
    /\ InitBinderIdle
    /\ r \in {NewRenderer(DialectMySQL),
              AddFunc(NewRenderer(DialectMySQL), "helper", "fail")}
    /\ heap = EmptyMap
    /\ rn = [s \in Slots |-> IdleRender]
    /\ tpl \in Templates
    /\ fs = EmptyMap
    /\ calls = <<>>

StartRender(s, dialect) ==
    /\ rn[s].status = "idle"
    /\ \E st \in {StartOf(r, heap, {rn[t].qa : t \in Running}, tpl,
                            ConcurrentDataOf(s), dialect)} :
          /\ heap' = st.heap
          /\ rn' = [rn EXCEPT ![s] = st.run]
    /\ UNCHANGED <<binderVars, r, tpl, fs, calls>>

ExecuteStep(s) ==
    /\ rn[s].status = "running"
    /\ \E n \in {StepOf([heap |-> heap, run |-> rn[s]], tpl, DataOf(rn[s].data))} :
          /\ heap' = n.heap
          /\ rn' = [rn EXCEPT ![s] = n.run]
    /\ UNCHANGED <<binderVars, r, tpl, fs, calls>>

NextConcurrent ==
    \/ \E s \in Slots, dialect \in ConcurrentDialects : StartRender(s, dialect)
    \/ \E s \in Slots : ExecuteStep(s)

SpecConcurrent == InitConcurrent /\ [][NextConcurrent]_vars

-----------------------------------------------------------------------------
(* One renderer whose search paths and default dialect are configured      *)
(* between renders of named templates and of the template text.            *)

\* Directories callers add, template names they ask for, and the files that
\* may exist: the name itself and the name under each directory.
SearchDirs == {<<"a">>, <<"b">>, <<"a", "/">>}

SearchPathLists == {<<>>, << <<"b">>, <<"a">> >>}

TemplateNames == {<<"t">>, <<"u">>}

FilePaths == {<<"t">>, <<"a", "/", "t">>, <<"b", "/", "t">>}

\* Every file has a content of its own, so that a result tells its file.
ContentOf(path) ==
    CASE path = <<"t">> -> <<TextNode>>
      [] path = <<"a", "/", "t">> -> <<TextNode, TextNode>>
      [] OTHER -> <<CallNode("bind", "Active")>>

\* The files present, with a/t a file or a directory.
FileSystems ==
    {[p \in S |-> IF isDir /\ p = <<"a", "/", "t">> THEN DirEntry
                  ELSE FileEntry(ContentOf(p))] :
        S \in SUBSET FilePaths, isDir \in BOOLEAN}

DefaultDialects == {DialectPostgres, DialectSQLServer, DialectMySQL}

\* A whole call of FromStringWithDialect(s, data, dialect) by caller 1.
RenderString(rr, hp, s, data, dialect) ==
    RunOf(StartOf(rr, hp, {}, s, data, dialect), s, DataOf(data))

\* A whole call of FromTemplateWithDialect(name, data, dialect): the lookup,
\* os.ReadFile, which fails on a directory, and the render of the content.
\* The path found and the error text are kept beside the result.
RenderTemplate(rr, hp, files, name, data, dialect) ==
    LET found == findTemplateFile(rr, files, name, 0)
        failed(err) == [heap |-> hp,
                        run |-> [IdleRender EXCEPT !.status = "done", !.data = data,
                                                   !.dialect = dialect,
                                                   !.result.err = err]]
        end == IF found.err # "nil" THEN failed(found.err)
               ELSE IF files[found.path].kind = "dir" THEN failed("read")
               ELSE RenderString(rr, hp, files[found.path].content, data, dialect)
    IN  [heap |-> end.heap, run |-> end.run, path |-> found.path, msg |-> found.msg]

\* What caller 1 called and got besides the result: the entry point, the
\* template name, the path found, the error text, and the number of
\* configuration calls made before.
Noted(run, entry, name, path, msg, at) ==
    [call |-> [entry |-> entry, name |-> name, path |-> path, msg |-> msg, at |-> at]]
        @@ run

DoSetDefaultDialect(d) ==
    /\ Len(calls) < MaxConfig
    /\ r' = SetDefaultDialect(r, d)
    /\ calls' = Append(calls, [op |-> "SetDefaultDialect", arg |-> d])
    /\ UNCHANGED <<binderVars, heap, rn, tpl, fs>>

DoAddSearchPath(path) ==
    /\ Len(calls) < MaxConfig
    /\ r' = AddSearchPath(r, path)
    /\ calls' = Append(calls, [op |-> "AddSearchPath", arg |-> path])
    /\ UNCHANGED <<binderVars, heap, rn, tpl, fs>>

DoSetSearchPaths(paths) ==
    /\ Len(calls) < MaxConfig
    /\ r' = SetSearchPaths(r, paths)
    /\ calls' = Append(calls, [op |-> "SetSearchPaths", arg |-> paths])
    /\ UNCHANGED <<binderVars, heap, rn, tpl, fs>>

StringCall(entry, data, dialect) ==
    /\ \E end \in {RenderString(r, heap, tpl, data, dialect)} :
          /\ heap' = end.heap
          /\ rn' = [rn EXCEPT ![1] = Noted(end.run, entry, <<>>, <<>>, <<>>, Len(calls))]
    /\ UNCHANGED <<binderVars, r, tpl, fs, calls>>

TemplateCall(entry, name, data, dialect) ==
    /\ \E end \in {RenderTemplate(r, heap, fs, name, data, dialect)} :
          /\ heap' = end.heap
          /\ rn' = [rn EXCEPT ![1] = Noted(end.run, entry, name, end.path, end.msg,
                                          Len(calls))]
    /\ UNCHANGED <<binderVars, r, tpl, fs, calls>>

FromStringWithDialectNoted(data, dialect) ==
    StringCall("FromStringWithDialect", data, dialect)

\* FromString and FromTemplate pass r.defaultDialect, read at the call.
FromString(data) == StringCall("FromString", data, r.defaultDialect)

FromTemplateWithDialect(name, data, dialect) ==
    TemplateCall("FromTemplateWithDialect", name, data, dialect)

FromTemplate(name, data) == TemplateCall("FromTemplate", name, data, r.defaultDialect)

InitSearch ==
    /\ InitBinderIdle
    /\ r = NewRenderer(DialectMySQL)
    /\ heap = EmptyMap
    /\ rn = [s \in Slots |-> IdleRender]
    /\ tpl = <<>>
    /\ fs \in FileSystems
    /\ calls = <<>>

NextSearch ==
    \/ \E path \in SearchDirs : DoAddSearchPath(path)
    \/ \E paths \in SearchPathLists : DoSetSearchPaths(paths)
    \/ \E name \in TemplateNames : FromTemplate(name, "d1")

SpecSearch == InitSearch /\ [][NextSearch]_vars

\* The construction NewRenderer(d0) is the first call of the history.
InitDialect ==
    /\ InitBinderIdle
    /\ \E d0 \in {DialectMySQL, DialectOracle} :
          /\ r = NewRenderer(d0)
          /\ calls = <<[op |-> "NewRenderer", arg |-> d0]>>
    /\ heap = EmptyMap
    /\ rn = [s \in Slots |-> IdleRender]
    /\ tpl = <<CallNode("bind", "Active")>>
    /\ fs = (<<"t">> :> FileEntry(<<TextNode, CallNode("bind", "Active")>>))

NextDialect ==
    \/ \E d \in DefaultDialects : DoSetDefaultDialect(d)
    \/ FromString("d1")
    \/ \E d \in DefaultDialects : FromStringWithDialectNoted("d1", d)
    \/ FromTemplate(<<"t">>, "d1")
    \/ \E d \in DefaultDialects : FromTemplateWithDialect(<<"t">>, "d1", d)

SpecDialect == InitDialect /\ [][NextDialect]_vars

-----------------------------------------------------------------------------
(* Reading a returned text back: the position a placeholder encodes, the   *)
(* placeholders of a parenthesized list.                                   *)

PositionalDialects == {DialectPostgres, DialectSQLServer, DialectOracle}

DigitSet == {DigitChars[i] : i \in 1..10}

DigitVal(c) == CHOOSE d \in 0..9 : DigitChars[d + 1] = c

RECURSIVE ParseInt(_)
ParseInt(s) ==
    IF Len(s) = 0 THEN 0
    ELSE 10 * ParseInt(SubSeq(s, 1, Len(s) - 1)) + DigitVal(s[Len(s)])

\* A decimal numeral without sign or leading zero.
IsNumeral(s) ==
    /\ Len(s) >= 1
    /\ \A i \in 1..Len(s) : s[i] \in DigitSet
    /\ s[1] # "0"

HasPrefix(s, p) == Len(s) >= Len(p) /\ SubSeq(s, 1, Len(p)) = p

\* The position text ph encodes after the prefix p, or -1 when it encodes none.
SuffixAfter(ph, p) ==
    IF HasPrefix(ph, p) /\ IsNumeral(SubSeq(ph, Len(p) + 1, Len(ph)))
    THEN ParseInt(SubSeq(ph, Len(p) + 1, Len(ph)))
    ELSE -1

\* ph is the placeholder of dialect d for position n, by the table of the
\* dialects.
IsPlaceholder(d, ph, n) ==
    CASE d = DialectPostgres -> SuffixAfter(ph, <<"$">>) = n
      [] d = DialectSQLServer -> SuffixAfter(ph, <<"@", "p">>) = n
      [] d = DialectOracle -> SuffixAfter(ph, <<":">>) = n
      [] OTHER -> ph = <<"?">>

\* The items of "(a, b, c)", or <<>> when the text is not such a list.
ListItems(t) ==
    IF Len(t) >= 2 /\ t[1] = "(" /\ t[Len(t)] = ")"
    THEN LET parts == Split(SubSeq(t, 2, Len(t) - 1), ",")
         IN  IF \A j \in 2..Len(parts) : Len(parts[j]) >= 1 /\ parts[j][1] = " "
             THEN [j \in 1..Len(parts) |->
                      IF j = 1 THEN parts[j] ELSE Tail(parts[j])]
             ELSE <<>>
    ELSE <<>>

NullList == <<"(", "N", "U", "L", "L", ")">>

\* The argument list right after the i-th logged Bind call.
Post(i) == IF i < Len(log) THEN log[i + 1].pre ELSE qa.args

\* The placeholders and the argument list that the Bind calls of as, made in
\* order on a new binder of dialect d, give.
RECURSIVE Replay(_, _, _)
Replay(q, as, rets) ==
    IF Len(as) = 0 THEN [args |-> q.args, rets |-> rets]
    ELSE LET b == Bind(q, Head(as))
         IN  Replay(b.qa, Tail(as), Append(rets, b.ret))

-----------------------------------------------------------------------------
(* Claims about the binder.                                                *)

\* C2: on a binder of a positional dialect on which only single values (a
\* scalar or nil) were bound, the i-th call returned the placeholder with
\* suffix i and the argument list is the bound values in call order; on any
\* binder a single-value Bind appends its value, and nothing else, at the end.
C2_SequentialScalars ==
    /\ (qa.dialect \in PositionalDialects
          /\ \A i \in 1..Len(log) : ~IsCollection(log[i].arg))
       => /\ Len(qa.args) = Len(log)
          /\ \A i \in 1..Len(log) :
                /\ IsPlaceholder(qa.dialect, log[i].ret, i)
                /\ qa.args[i] = log[i].arg
    /\ \A i \in 1..Len(log) :
          ~IsCollection(log[i].arg) => Post(i) = Append(log[i].pre, log[i].arg)

C2_Witness ==
    /\ qa.dialect = DialectSQLServer
    /\ Len(log) = 3
    /\ log[1].arg = IntV(1) /\ log[2].arg = Nil /\ log[3].arg = IntV(1)
    /\ log[3].ret = <<"@", "p", "3">>

\* C3: a Bind of a slice or array of n > 0 elements on a binder holding c
\* arguments appends the n elements in order and returns "(" p(c+1), ..., p(c+n)
\* ")" joined by ", ".
C3_CollectionContiguous ==
    \A i \in 1..Len(log) :
        (IsCollection(log[i].arg) /\ Len(log[i].arg.elems) > 0)
        => LET c == Len(log[i].pre)
               n == Len(log[i].arg.elems)
               items == ListItems(log[i].ret)
           IN  /\ Post(i) = log[i].pre \o log[i].arg.elems
               /\ Len(items) = n
               /\ \A j \in 1..n : IsPlaceholder(qa.dialect, items[j], c + j)

C3_Witness ==
    /\ qa.dialect = DialectPostgres
    /\ Len(log) = 2
    /\ log[1].arg = SliceV(<<IntV(1), IntV(2)>>)
    /\ log[2].arg = ArrayV(<<IntV(7), IntV(7)>>)
    /\ log[1].ret = <<"(", "$", "1", ",", " ", "$", "2", ")">>
    /\ log[2].ret = <<"(", "$", "3", ",", " ", "$", "4", ")">>
    /\ qa.args = <<IntV(1), IntV(2), IntV(7), IntV(7)>>

EmptyBind(e) == IsCollection(e.arg) /\ Len(e.arg.elems) = 0

\* C4: a Bind of an empty slice or array returns "(NULL)" and leaves the
\* argument list as it was, and the other Bind calls return what they return,
\* and leave the arguments they leave, on a binder that never saw the empty
\* binds.
C4_EmptyCollection ==
    /\ \A i \in 1..Len(log) :
          EmptyBind(log[i]) => log[i].ret = NullList /\ Post(i) = log[i].pre
    /\ LET kept == SelectSeq(log, LAMBDA e : ~EmptyBind(e))
           alone == Replay(NewQueryArgs(qa.dialect),
                           [j \in 1..Len(kept) |-> kept[j].arg], <<>>)
       IN  /\ alone.args = qa.args
           /\ alone.rets = [j \in 1..Len(kept) |-> kept[j].ret]

C4_Witness ==
    /\ qa.dialect = DialectOracle
    /\ Len(log) = 3
    /\ log[1].arg = IntV(2)
    /\ log[2].arg = SliceV(<<>>) /\ log[2].ret = NullList
    /\ log[3].arg = IntV(1) /\ log[3].ret = <<":", "2">>
    /\ qa.args = <<IntV(2), IntV(1)>>

\* C5: placeholderFor(n) is "$n" under Postgres, "@pn" under SQL Server, ":n"
\* under Oracle and "?" under every other tag, whatever the binder holds.
C5_PlaceholderTable ==
    ret.op = "placeholderFor"
    => LET n == ret.arg.n
           d == qa.dialect
       IN  /\ d = DialectPostgres => SuffixAfter(ret.text, <<"$">>) = n
           /\ d = DialectSQLServer => SuffixAfter(ret.text, <<"@", "p">>) = n
           /\ d = DialectOracle => SuffixAfter(ret.text, <<":">>) = n
           /\ d \in {DialectMySQL, DialectSQLite, DialectSnowflake, DialectUnknown}
                 => ret.text = <<"?">>

C5_Witness ==
    /\ ret.op = "placeholderFor"
    /\ qa.dialect = DialectSQLServer
    /\ qa.args = <<Nil>>
    /\ ret.arg = IntV(12)
    /\ ret.text = <<"@", "p", "1", "2">>

-----------------------------------------------------------------------------
(* Claims about Identifier.                                                *)

AsciiLetters ==
    {"A", "B", "C", "D", "E", "F", "G", "H", "I", "J", "K", "L", "M",
     "N", "O", "P", "Q", "R", "S", "T", "U", "V", "W", "X", "Y", "Z",
     "a", "b", "c", "d", "e", "f", "g", "h", "i", "j", "k", "l", "m",
     "n", "o", "p", "q", "r", "s", "t", "u", "v", "w", "x", "y", "z"}

NameClass == AsciiLetters \cup DigitSet \cup {"_", "."}

OpenQuote(d) ==
    CASE d \in {DialectPostgres, DialectOracle} -> "\""
      [] d = DialectSQLServer -> "["
      [] d \in {DialectMySQL, DialectSQLite, DialectSnowflake} -> Backtick
      [] OTHER -> Backtick

CloseQuote(d) == IF d = DialectSQLServer THEN "]" ELSE OpenQuote(d)

\* The name read character by character: a period closes the open segment and
\* opens the next.
RECURSIVE QuotedChars(_, _)
QuotedChars(d, s) ==
    IF Len(s) = 0 THEN <<CloseQuote(d)>>
    ELSE (IF Head(s) = "." THEN <<CloseQuote(d), ".", OpenQuote(d)>> ELSE <<Head(s)>>)
         \o QuotedChars(d, Tail(s))

Count(s, c) == Cardinality({i \in 1..Len(s) : s[i] = c})

\* C6: a text of one or more ASCII letters, digits, underscores and periods is
\* returned with each period-separated segment quoted in the dialect's style
\* and the segments joined by periods, as many as the text has.
C6_IdentifierQuoting ==
    (/\ ret.op = "Identifier"
     /\ ret.arg.kind = "string"
     /\ Len(ret.arg.s) >= 1
     /\ \A i \in 1..Len(ret.arg.s) : ret.arg.s[i] \in NameClass)
    => /\ ret.kind = "value"
       /\ ret.text = <<OpenQuote(qa.dialect)>> \o QuotedChars(qa.dialect, ret.arg.s)
       /\ Count(ret.text, OpenQuote(qa.dialect))
            = (IF qa.dialect = DialectSQLServer THEN 1 ELSE 2)
                * (Count(ret.arg.s, ".") + 1)

C6_Witness ==
    /\ ret.op = "Identifier"
    /\ qa.dialect = DialectSQLServer
    /\ ret.arg = StrV(<<"a", ".", "Z">>)
    /\ ret.text = <<"[", "a", "]", ".", "[", "Z", "]">>

\* The text a %q rendering stands for, or <<"?">> (no rendering of a name
\* of the model) when t is no such rendering.
RECURSIVE UnquoteBody(_)
UnquoteBody(t) ==
    IF Len(t) = 0 THEN <<>>
    ELSE IF Head(t) = "\\" /\ Len(t) >= 2 THEN <<t[2]>> \o UnquoteBody(SubSeq(t, 3, Len(t)))
    ELSE <<Head(t)>> \o UnquoteBody(Tail(t))

Unquote(t) ==
    IF Len(t) >= 2 /\ t[1] = "\"" /\ t[Len(t)] = "\""
    THEN UnquoteBody(SubSeq(t, 2, Len(t) - 1))
    ELSE <<"?">>

\* C7: under every dialect a non-empty text with a character outside ASCII
\* letters, digits, underscore and period makes Identifier panic with a
\* message that carries the text, and the argument list stays as it was.
C7_InvalidIdentifierPanics ==
    (/\ ret.op = "Identifier"
     /\ ret.arg.kind = "string"
     /\ \E i \in 1..Len(ret.arg.s) : ret.arg.s[i] \notin NameClass)
    => /\ ret.kind = "panic"
       /\ HasPrefix(ret.text, PanicPrefix)
       /\ Unquote(SubSeq(ret.text, Len(PanicPrefix) + 1, Len(ret.text))) = ret.arg.s
       /\ qa.args = ret.pre

C7_Witness ==
    /\ ret.op = "Identifier"
    /\ ret.kind = "panic"
    /\ ret.arg = StrV(<<"a", ";", "Z">>)
    /\ qa.dialect = DialectMySQL
    /\ qa.args = <<IntV(1)>>

-----------------------------------------------------------------------------
(* Claims about rendering.                                                 *)

\* The numbers written in a text, in order of appearance.
RECURSIVE DigitPrefixLen(_)
DigitPrefixLen(t) ==
    IF Len(t) = 0 \/ Head(t) \notin DigitSet THEN 0 ELSE 1 + DigitPrefixLen(Tail(t))

RECURSIVE DigitRuns(_)
DigitRuns(t) ==
    IF Len(t) = 0 THEN <<>>
    ELSE IF Head(t) \notin DigitSet THEN DigitRuns(Tail(t))
    ELSE LET n == DigitPrefixLen(t)
         IN  <<ParseInt(SubSeq(t, 1, n))>> \o DigitRuns(SubSeq(t, n + 1, Len(t)))

\* The values the bind actions of a template name, in template order, a
\* collection by its elements.
RECURSIVE BoundValues(_, _)
BoundValues(s, dataOf) ==
    IF Len(s) = 0 THEN <<>>
    ELSE (IF Head(s).kind = "call" /\ Head(s).fn = "bind"
          THEN (IF IsCollection(dataOf[Head(s).arg])
                THEN dataOf[Head(s).arg].elems
                ELSE <<dataOf[Head(s).arg]>>)
          ELSE <<>>)
         \o BoundValues(Tail(s), dataOf)

Succeeded(run) == run.status = "done" /\ run.result.err = "nil"
Failed(run) == run.status = "done" /\ run.result.err \in {"parse", "exec"}

\* C1: a successful render under a positional dialect, in which bind is the
\* binder's Bind, returns the bound values flattened in template order, N of
\* them, and a text whose placeholders are numbered 1..N in order of
\* appearance, whatever was rendered before.
C1_RenderNumbersFromOne ==
    \A s \in Slots :
        (/\ Succeeded(rn[s])
         /\ rn[s].dialect \in PositionalDialects
         /\ rn[s].funcMap["bind"] = "Bind")
        => /\ rn[s].result.args = BoundValues(tpl, DataOf(rn[s].data))
           /\ DigitRuns(rn[s].result.text)
                = [i \in 1..Len(rn[s].result.args) |-> i]

C1_Witness ==
    /\ tpl = <<CallNode("bind", "IDs"), TextNode, CallNode("bind", "Active")>>
    /\ Succeeded(rn[1])
    /\ rn[1].dialect = DialectPostgres
    /\ rn[1].result.text
         = <<"(", "$", "1", ",", " ", "$", "2", ",", " ", "$", "3", ")", " ", "$", "4">>
    /\ rn[1].result.args = <<IntV(1), IntV(2), IntV(3), BoolV(1)>>

\* C8: in every render whose template calls bind or identifier, the name
\* stands for the method of the render's binder, whatever custom functions are
\* registered, so that a successful render returns the values its bind actions
\* name.
C8_BuiltinsNotShadowed ==
    \A s \in Slots :
        rn[s].status # "idle"
        => /\ \A i \in 1..Len(tpl) :
                 /\ tpl[i].fn = "bind" => rn[s].funcMap["bind"] = "Bind"
                 /\ tpl[i].fn = "identifier"
                       => rn[s].funcMap["identifier"] = "Identifier"
           /\ Succeeded(rn[s])
                 => rn[s].result.args = BoundValues(tpl, DataOf(rn[s].data))

\* C9: each of two renders that run at the same time has a binder of its own,
\* holds at every step the arguments its own actions bound, and returns what
\* it returns when it runs alone.
C9_ConcurrentRendersIsolated ==
    /\ \A s, t \in Slots :
          (s # t /\ rn[s].status = "running" /\ rn[t].status = "running")
          => rn[s].qa # rn[t].qa
    /\ \A s \in Slots :
          rn[s].status = "running"
          => heap[rn[s].qa].args
               = BoundValues(SubSeq(tpl, 1, rn[s].pc - 1), DataOf(rn[s].data))
    /\ \A s \in Slots :
          rn[s].status = "done"
          => rn[s].result
               = RunOf(StartOf(r, EmptyMap, {}, tpl, rn[s].data, rn[s].dialect),
                       tpl, DataOf(rn[s].data)).run.result

C9_Witness ==
    /\ tpl = <<CallNode("bind", "IDs"), CallNode("bind", "Active")>>
    /\ rn[1].status = "running" /\ rn[1].pc = 2 /\ rn[1].dialect = DialectPostgres
    /\ Succeeded(rn[2]) /\ rn[2].dialect = DialectPostgres
    /\ rn[2].result.text = <<"(", "$", "1", ",", " ", "$", "2", ")", "$", "3">>
    /\ rn[2].result.args = <<IntV(4), IntV(5), Nil>>
    /\ heap[rn[1].qa].args = <<IntV(1), IntV(2), IntV(3)>>

\* C10: a render that ends with a parse error or an execution error returns
\* the empty text and no arguments, whatever it had written and bound.
C10_ErrorReturnsNothing ==
    \A s \in Slots :
        Failed(rn[s]) => rn[s].result.text = <<>> /\ rn[s].result.args = <<>>

C10_Witness ==
    /\ tpl = <<CallNode("bind", "IDs"), CallNode("bind", "Active"),
               CallNode("helper", "Active")>>
    /\ rn[1].status = "done"
    /\ rn[1].result = [text |-> <<>>, args |-> <<>>, err |-> "exec"]
    /\ rn[1].funcMap["helper"] = "fail"
    /\ Len(heap[rn[1].qa].args) = 4
    /\ Len(rn[1].buf) > 0

-----------------------------------------------------------------------------
(* Resolution of a named template.                                         *)

\* The search paths that the configuration calls h leave behind.
RECURSIVE PathsAfter(_)
PathsAfter(h) ==
    IF h = <<>> THEN <<>>
    ELSE LET c == h[Len(h)]
             before == PathsAfter(SubSeq(h, 1, Len(h) - 1))
         IN  CASE c.op = "AddSearchPath" -> Append(before, c.arg)
               [] c.op = "SetSearchPaths" -> c.arg
               [] OTHER -> before

\* The candidates of a name, in the order of the claim: the name itself, then
\* the name under each directory.
Under(dir, name) ==
    (IF dir[Len(dir)] = "/" THEN SubSeq(dir, 1, Len(dir) - 1) ELSE dir)
        \o <<"/">> \o name

Candidates(name, paths) ==
    <<name>> \o [i \in 1..Len(paths) |-> Under(paths[i], name)]

Contains(t, part) ==
    \E i \in 1..(Len(t) - Len(part) + 1) : SubSeq(t, i, i + Len(part) - 1) = part

\* The directories an error text lists between its brackets.
ListedDirs(msg) ==
    LET open == CHOOSE i \in 1..Len(msg) : msg[i] = "["
        inner == SubSeq(msg, open + 1, Len(msg) - 1)
    IN  IF inner = <<>> THEN <<>> ELSE Split(inner, " ")

\* What a render of each file returns under MySQL with the data d1.
ExpectedOf(path) ==
    CASE path = <<"t">> -> [text |-> <<" ">>, args |-> <<>>, err |-> "nil"]
      [] path = <<"a", "/", "t">> -> [text |-> <<" ", " ">>, args |-> <<>>, err |-> "nil"]
      [] OTHER -> [text |-> <<"?">>, args |-> <<BoolV(1)>>, err |-> "nil"]

\* C11: a named template is resolved to the first candidate that exists, in
\* the order name, dir1/name, dir2/name, ... with the directories in the order
\* they were added; when no candidate exists the call fails with a not-found
\* error that names the template and lists every search-path directory.
C11_FirstExistingCandidate ==
    rn[1].status = "done"
    => LET c == rn[1].call
           paths == PathsAfter(SubSeq(calls, 1, c.at))
           cands == Candidates(c.name, paths)
           hits == {i \in 1..Len(cands) : cands[i] \in DOMAIN fs}
       IN  IF hits = {}
           THEN /\ rn[1].result.err = "notfound"
                /\ rn[1].result.text = <<>> /\ rn[1].result.args = <<>>
                /\ Contains(c.msg, c.name)
                /\ ListedDirs(c.msg) = paths
           ELSE LET first == CHOOSE i \in hits : \A j \in hits : i <= j
                IN  /\ c.path = cands[first]
                    /\ IF fs[cands[first]].kind = "dir"
                       THEN rn[1].result.err = "read"
                       ELSE rn[1].result = ExpectedOf(cands[first])

\* A name that does not exist by itself, found under the first of two
\* directories that both hold it.
C11_Witness ==
    /\ rn[1].status = "done"
    /\ rn[1].call.name = <<"t">>
    /\ rn[1].call.at = Len(calls)
    /\ r.searchPaths = << <<"b">>, <<"a">> >>
    /\ DOMAIN fs = {<<"a", "/", "t">>, <<"b", "/", "t">>}
    /\ rn[1].call.path = <<"b", "/", "t">>
    /\ rn[1].result = [text |-> <<"?">>, args |-> <<BoolV(1)>>, err |-> "nil"]

-----------------------------------------------------------------------------
(* The default dialect.                                                    *)

\* The dialect that the calls h (the construction, then the setter calls)
\* leave as the default: the argument of the last of them.
DefaultAfter(h) ==
    LET sets == {i \in 1..Len(h) : h[i].op \in {"NewRenderer", "SetDefaultDialect"}}
    IN  h[CHOOSE i \in sets : \A j \in sets : j <= i].arg

\* The text a call returns without the template's literal text.
WithoutBlanks(t) == SelectSeq(t, LAMBDA c : c # " ")

\* C12: FromString and FromTemplate render with the dialect set most recently
\* before the call (the constructor's when none was set), the WithDialect
\* variants render with the dialect passed in, and no render changes the
\* default.
C12_DefaultDialectAtCallTime ==
    /\ r.defaultDialect = DefaultAfter(calls)
    /\ rn[1].status = "done"
       => LET c == rn[1].call
              d == IF c.entry \in {"FromString", "FromTemplate"}
                   THEN DefaultAfter(SubSeq(calls, 1, c.at))
                   ELSE rn[1].dialect
          IN  /\ rn[1].result.err = "nil"
              /\ rn[1].result.args = <<BoolV(1)>>
              /\ IsPlaceholder(d, WithoutBlanks(rn[1].result.text), 1)

\* A renderer constructed for Oracle, set to Postgres and then to SQL Server,
\* renders a named template with SQL Server placeholders.
C12_Witness ==
    /\ Len(calls) = 3
    /\ calls[1].arg = DialectOracle
    /\ calls[2].arg = DialectPostgres
    /\ calls[3].arg = DialectSQLServer
    /\ rn[1].status = "done"
    /\ rn[1].call.entry = "FromTemplate"
    /\ rn[1].call.at = 3
    /\ rn[1].result.text = <<" ", "@", "p", "1">>

-----------------------------------------------------------------------------
(* Identifier among Bind calls.                                            *)

\* C13: Identifier given a value that is not a text, or the empty text,
\* returns the empty text and does not panic, under every dialect; no
\* Identifier call changes the argument list, so the Bind calls return the
\* placeholders, and leave the argument list, that they give when made alone
\* on a new binder.
C13_IdentifierLeavesArguments ==
    /\ ret.op = "Identifier"
       => /\ qa.args = ret.pre
          /\ (ret.arg.kind # "string" \/ ret.arg.s = <<>>)
                => ret.kind = "value" /\ ret.text = <<>>
    /\ LET binds == SelectSeq(calls, LAMBDA c : c.op = "Bind")
           alone == Replay(NewQueryArgs(qa.dialect),
                           [j \in 1..Len(binds) |-> binds[j].arg], <<>>)
       IN  /\ alone.args = qa.args
           /\ alone.rets = [j \in 1..Len(log) |-> log[j].ret]

\* Identifier called with a number and with a valid name between two Bind
\* calls under Postgres: the second Bind numbers from 2.
C13_Witness ==
    /\ qa.dialect = DialectPostgres
    /\ Len(calls) = 4
    /\ calls[1] = [op |-> "Bind", arg |-> IntV(1)]
    /\ calls[2] = [op |-> "Identifier", arg |-> IntV(1)]
    /\ calls[3] = [op |-> "Identifier", arg |-> StrV(<<"a", ".", "b">>)]
    /\ calls[4].op = "Bind"
    /\ ret.text = <<"(", "$", "2", ",", " ", "$", "3", ")">>
    /\ qa.args = <<IntV(1), IntV(1), IntV(2)>>

-----------------------------------------------------------------------------
(* Snowflake placeholders.                                                 *)

\* What the Bind calls of the log return on a new binder of dialect d.
LogUnder(d) == Replay(NewQueryArgs(d), [j \in 1..Len(log) |-> log[j].arg], <<>>).rets

LogRets == [j \in 1..Len(log) |-> log[j].ret]

\* C14, as the code has it: under Snowflake every placeholder Bind emits is
\* the fixed marker "?", whatever the position, the same text as under MySQL.
C14_SnowflakeFixedMarker ==
    qa.dialect = DialectSnowflake
    => /\ \A i \in 1..Len(log) :
             IF IsCollection(log[i].arg)
             THEN Len(log[i].arg.elems) > 0
                     => ListItems(log[i].ret)
                           = [k \in 1..Len(log[i].arg.elems) |-> <<"?">>]
             ELSE log[i].ret = <<"?">>
       /\ LogRets = LogUnder(DialectMySQL)

\* Three Bind calls under Snowflake, the last one of a collection at
\* positions 3 and 4.
C14_Witness ==
    /\ qa.dialect = DialectSnowflake
    /\ Len(log) = 3
    /\ Len(log[3].pre) = 2
    /\ Len(qa.args) = 4
    /\ log[3].ret = <<"(", "?", ",", " ", "?", ")">>

\* C14, as stated: under Snowflake a single-value Bind at position n returns
\* "$n", and every Bind returns the text it returns under Postgres.
C14_SnowflakeDollarPositional ==
    qa.dialect = DialectSnowflake
    => /\ \A i \in 1..Len(log) :
             ~IsCollection(log[i].arg)
                => SuffixAfter(log[i].ret, <<"$">>) = Len(log[i].pre) + 1
       /\ LogRets = LogUnder(DialectPostgres)

-----------------------------------------------------------------------------
(* An invalid identifier inside a render.                                  *)

\* The render stopped at an action that hands the binder's Identifier a text
\* with a character outside the class.
StoppedAtInvalidIdentifier(run) ==
    /\ run.status = "done"
    /\ run.result.err # "parse"
    /\ run.pc \in 1..Len(tpl)
    /\ tpl[run.pc].fn = "identifier"
    /\ run.funcMap["identifier"] = "Identifier"
    /\ LET v == DataOf(run.data)[tpl[run.pc].arg]
       IN  v.kind = "string" /\ \E i \in 1..Len(v.s) : v.s[i] \notin NameClass

\* C15: a render whose template hands identifier an invalid text does not
\* return: the call is aborted at the identifier action, without an error
\* value, a text or arguments.
C15_InvalidIdentifierAbortsRender ==
    \A s \in Slots :
        StoppedAtInvalidIdentifier(rn[s])
        => /\ rn[s].result.err \notin {"nil", "parse", "exec"}
           /\ rn[s].result.text = <<>>
           /\ rn[s].result.args = <<>>

-----------------------------------------------------------------------------
(* Segments of a quoted identifier.                                        *)

\* C16: every text Identifier accepts is quoted into segments none of which
\* is empty: each part of the output between periods holds at least one
\* character between its quote marks.
C16_NoEmptySegment ==
    (/\ ret.op = "Identifier"
     /\ ret.kind = "value"
     /\ ret.arg.kind = "string"
     /\ ret.arg.s # <<>>)
    => LET parts == Split(ret.text, ".")
       IN  \A i \in 1..Len(parts) : Len(parts[i]) >= 3

====
